---- MODULE Spec2Model ----
(***************************************************************************)
(* godump: the recursive value-rendering engine of godump.go.              *)
(*                                                                         *)
(* A value graph is a heap of nodes.  A node is one Go value: its kind,    *)
(* the nodes it refers to (pointer target, interface content, struct       *)
(* fields, slice/array elements, map values), whether it is nil, whether   *)
(* its type has a String() method, and (for a struct) whether its fields   *)
(* are unexported.  A reflect.Value is a handle [n, addr, ro]: the node,   *)
(* reflect's flagAddr (CanAddr) and reflect's flagRO (not CanInterface).   *)
(* A struct node marked anon is the value of an embedded (anonymous) field  *)
(* of the struct that holds it; the dumper never reads that mark.          *)
(*                                                                         *)
(* printValue is recursive; the model runs it on an explicit call stack,   *)
(* one frame per active invocation, so that a recursion that never ends    *)
(* shows as a stack that outgrows the runtime's limit.  `out` holds the    *)
(* fragments written to the tabwriter, in order (indentation, newlines and *)
(* colour codes are layout and are left out).                              *)
(***************************************************************************)
EXTENDS Integers, Sequences, FiniteSets, TLC

VARIABLES
    heap,          \* the value graph being inspected (never written by the dumper)
    d,             \* the Dumper: maxDepth, maxItems, maxStringLen
    referenceMap,  \* godump.go:45  map[uintptr]int, pointer target -> id
    nextRefID,     \* godump.go:44
    stack,         \* call stack of writeDump / printValue invocations
    out,           \* fragments written by the current call
    status,        \* "idle" | "running" | "done" | "panic" | "overflow"
    nargs,         \* top-level values handed to printValue by the current call
    derefs,        \* per pointer target: how often printValue descended into it (this call)
    sv,            \* string renderer: the Go string being rendered (runes)
    sbuf,          \* string renderer: local variable str
    spc,           \* string renderer: position in the string case
    colorize,      \* godump.go:52  the global backend: "ansi" | "html"
    enableColor,   \* godump.go:43
    calls,         \* per goroutine: the top-level dump call it is running
    hist,          \* the top-level calls that have ended, in order of their end
    exitCalls,     \* the statuses exitFunc was called with, in order
    hb,            \* byte-slice case: the bytes being rendered
    hout,          \* byte-slice case: what was written for them
    dumper,        \* NewDumper: the Dumper under construction
    applied,       \* NewDumper: the options applied so far
    frames,        \* header: the call stack callerFn reads, from index 2 outward
    hdr,           \* header: findFirstNonInternalFrame / printDumpHeader in progress
    env,           \* the environment variables NO_COLOR and FORCE_COLOR
    cz             \* the last call of a color backend: its arguments and result

vars == <<heap, d, referenceMap, nextRefID, stack, out, status, nargs, derefs, sv, sbuf, spc,
          colorize, enableColor, calls, hist, exitCalls, hb, hout, dumper, applied,
          frames, hdr, env, cz>>

travVars == <<heap, d, referenceMap, nextRefID, stack, out, status, nargs, derefs>>
strVars == <<sv, sbuf, spc>>
callVars == <<colorize, enableColor, calls, hist, exitCalls>>
hexVars == <<hb, hout>>
optVars == <<dumper, applied>>
hdrVars == <<frames, hdr>>
colVars == <<env, cz>>
otherVars == <<callVars, hexVars, optVars, hdrVars, colVars>>
\* what a top-level call of the call model leaves alone
callFrame == <<heap, d, stack, out, status, nargs, derefs, strVars, hexVars, optVars,
               hdrVars, colVars>>

-----------------------------------------------------------------------------
(* Bounds of the model *)

MaxChain == 3        \* nodes of an enumerated value graph
MaxWidth == 2        \* entries of an enumerated container
MaxDepthCfg == 2     \* largest maxDepth configured
MaxItemsCfg == 1     \* largest maxItems configured
MaxArgs == 2         \* top-level values per dump call
MaxRefID == 2        \* a new call starts only while nextRefID <= MaxRefID
StackLimit == 24     \* invocations the goroutine stack holds before it overflows
MaxStr == 3          \* runes of an enumerated string
MaxStrLenCfg == 3    \* largest maxStringLen configured
MaxOpts == 3         \* options handed to one NewDumper call
MaxCalls == 3        \* top-level calls started in one run of the program
MaxBytes == 3        \* bytes of an enumerated byte slice
MaxNamed == 8        \* frames of functions outside the engine whose name holds "godump"
MaxOuter == 2        \* frames further out on the call stack
MaxText == 2         \* characters of a text handed to a color backend
MaxOptN == 1         \* largest limit handed to an option

(* Program constants *)
defaultMaxDepth == 15
defaultMaxItems == 100
defaultMaxStringLen == 100000
lineLen == 16

-----------------------------------------------------------------------------
(* Value graphs *)

RefKinds == {"ptr", "slice", "map"}
InnerKinds == {"ptr", "iface", "struct", "slice", "map"}
NilableKinds == {"ptr", "slice", "map", "iface", "func", "chan", "bytes"}

Node(k, kids, isnil, str, unexp) ==
    [kind |-> k, kids |-> kids, isnil |-> isnil, str |-> str, unexp |-> unexp,
     anon |-> FALSE]

Rep(c, w) == [i \in 1..w |-> c]

Min(a, b) == IF a < b THEN a ELSE b

Range(f) == {f[i] : i \in DOMAIN f}

-----------------------------------------------------------------------------
(* reflect.Value handles: v = [n, addr, ro] *)

Val(n, addr, ro) == [n |-> n, addr |-> addr, ro |-> ro]

\* reflect.ValueOf(x): a copy held in an interface, not addressable, not read-only
ValueOf(n) == Val(n, FALSE, FALSE)

IsValid(v) == v.n # 0
Kind(h, v) == IF v.n = 0 THEN "invalid" ELSE h[v.n].kind
CanAddr(v) == v.addr
CanInterface(v) == ~v.ro

Pointer_Self(h, v) == v.n

\* v.Pointer() of a non-nil pointer: the address of its target
Pointer(h, v) == h[v.n].kids[1]

\* v.Elem(): a pointer's target is addressable, an interface's content is a copy
Elem(h, v) ==
    Val(h[v.n].kids[1], h[v.n].kind = "ptr", v.ro)

Field_First(h, v, i) ==
    Val(h[v.n].kids[1], v.addr, v.ro \/ h[v.n].unexp)

\* v.Field(i): addressable iff the struct is, read-only iff the struct is or the
\* field is unexported
Field(h, v, i) ==
    Val(h[v.n].kids[i], v.addr, v.ro \/ h[v.n].unexp)

\* v.Index(i): a slice's elements are always addressable, an array's iff the array is
Index(h, v, i) ==
    Val(h[v.n].kids[i], IF h[v.n].kind = "array" THEN v.addr ELSE TRUE, v.ro)

\* v.MapIndex(key): a copy, never addressable
MapIndex(h, v, i) ==
    Val(h[v.n].kids[i], FALSE, v.ro)

\* godump.go:508 forceExported
forceExported(v) ==
    IF CanInterface(v) THEN v
    ELSE IF CanAddr(v) THEN Val(v.n, TRUE, FALSE)
    ELSE v

\* godump.go:520 makeAddressable
makeAddressable(h, v) ==
    IF CanAddr(v) THEN v
    ELSE IF Kind(h, v) = "struct" THEN Val(v.n, TRUE, v.ro)
    ELSE v

\* godump.go:537 isNil
isNil(h, v) ==
    IF Kind(h, v) \in {"ptr", "slice", "bytes", "map", "iface", "func", "chan"}
    THEN h[v.n].isnil
    ELSE FALSE

\* val.Interface().(fmt.Stringer): the dynamic type has a String method.  For a
\* value of interface kind Interface() returns the content, so the content's type
\* decides.
ImplementsStringer(h, n) ==
    IF h[n].kind = "iface"
    THEN (~h[n].isnil) /\ h[h[n].kids[1]].str
    ELSE h[n].str

\* the receiver s of s.String(): the value itself, or an interface's content
Receiver(h, n) ==
    IF h[n].kind = "iface" /\ ~h[n].isnil THEN h[n].kids[1] ELSE n

\* asStringer asserting on the value's static type only: an interface value is
\* never taken for a Stringer, whatever it holds
asStringer_StaticType(h, v) ==
    LET val == IF ~CanInterface(v) THEN forceExported(v) ELSE v
    IN  IF CanInterface(val) /\ h[val.n].kind # "iface" /\ h[val.n].str
        THEN IF h[val.n].kind = "ptr" /\ h[val.n].isnil THEN "nil" ELSE "str"
        ELSE ""

\* godump.go:485 asStringer: "" (no override), "nil" (<type>(nil)), "str" (String() called)
asStringer(h, v) ==
    LET val == IF ~CanInterface(v) THEN forceExported(v) ELSE v
    IN  IF CanInterface(val) /\ ImplementsStringer(h, val.n)
        THEN IF h[Receiver(h, val.n)].kind = "ptr" /\ h[Receiver(h, val.n)].isnil
             THEN "nil"
             ELSE "str"
        ELSE ""

\* every field marked as exported
symbol_AlwaysPlus(h, n) == "field+"

\* godump.go:398-402: the visibility marker of a struct's fields, "-" when
\* field.PkgPath is not empty
symbol(h, n) == IF h[n].unexp THEN "field-" ELSE "field+"

\* the item limit off by one: one entry too many before the marker
Truncated_OffByOne(i, maxItems) == i > maxItems

\* godump.go:422, 448: the item limit of the map and slice loops
Truncated(i, maxItems) == i >= maxItems

-----------------------------------------------------------------------------
(* Output fragments and stack frames *)

Tok(t, n, dep, x) == [t |-> t, n |-> n, d |-> dep, x |-> x]

Frame(op, v, dep, i) ==
    [op |-> op, n |-> v.n, addr |-> v.addr, ro |-> v.ro, depth |-> dep, i |-> i]

ArgsFrame == Frame("args", Val(0, FALSE, FALSE), 0, 0)

Top == stack[Len(stack)]
TopVal == Val(Top.n, Top.addr, Top.ro)
Pop == SubSeq(stack, 1, Len(stack) - 1)
\* replace the top frame by f, then push g
Call(f, g) == Append(Append(Pop, f), g)

\* a reset that leaves the entry of address 1 in the table
EmptyMap_Stale == [a \in {1} |-> 1]

EmptyMap == [a \in {} |-> 0]
NoDerefs == [a \in DOMAIN heap |-> 0]

-----------------------------------------------------------------------------
(* The dump call: writeDump and printValue *)

\* godump.go:333-335 writeDump, entered from Dump / DumpStr / DumpHTML: the
\* reference table is replaced by an empty one; nextRefID is left as it is.
WriteDump ==
    /\ status \in {"idle", "done"}
    /\ nextRefID <= MaxRefID
    /\ referenceMap' = EmptyMap
    /\ status' = "running"
    /\ stack' = <<ArgsFrame>>
    /\ out' = <<>>
    /\ nargs' = 0
    /\ derefs' = NoDerefs
    /\ UNCHANGED <<heap, d, nextRefID, strVars, otherVars>>

\* godump.go:336-339 writeDump's loop: the next top-level value (the dumped
\* graph's root) goes through reflect.ValueOf and makeAddressable to printValue
NextArg ==
    /\ status = "running"
    /\ Top.op = "args"
    /\ nargs < MaxArgs
    /\ nargs' = nargs + 1
    /\ stack' = Append(stack, Frame("val", makeAddressable(heap, ValueOf(1)), 0, 0))
    /\ UNCHANGED <<heap, d, referenceMap, nextRefID, out, status, derefs, strVars, otherVars>>

\* godump.go:341-342 writeDump returns after its last value
Finish ==
    /\ status = "running"
    /\ Top.op = "args"
    /\ status' = "done"
    /\ stack' = <<>>
    /\ UNCHANGED <<heap, d, referenceMap, nextRefID, out, nargs, derefs, strVars, otherVars>>

\* the fragment printValue writes for a node it does not descend into, "" if it descends
Leaf(v, indent) ==
    LET k == Kind(heap, v) IN
    IF indent > d.maxDepth THEN Tok("maxdepth", v.n, indent, 0)
    ELSE IF ~IsValid(v) THEN Tok("invalid", 0, indent, 0)
    ELSE IF asStringer(heap, v) = "nil" THEN Tok("strnil", v.n, indent, Receiver(heap, v.n))
    ELSE IF asStringer(heap, v) = "str" THEN Tok("str", v.n, indent, Receiver(heap, v.n))
    ELSE IF k = "chan" THEN Tok(IF heap[v.n].isnil THEN "channil" ELSE "chan", v.n, indent, 0)
    ELSE IF isNil(heap, v) THEN Tok("nil", v.n, indent, 0)
    ELSE IF k = "ptr" /\ CanAddr(v) /\ Pointer(heap, v) \in DOMAIN referenceMap
         THEN Tok("ref", v.n, indent, referenceMap[Pointer(heap, v)])
    ELSE IF k = "leaf" THEN Tok("leaf", v.n, indent, 0)
    ELSE IF k = "func" THEN Tok("func", v.n, indent, 0)
    ELSE IF k = "bytes" /\ CanInterface(v) THEN Tok("hex", v.n, indent, 0)
    ELSE Tok("", v.n, indent, 0)

\* godump.go:344-482 printValue, one invocation up to its return or its first
\* recursive call
PrintValue ==
    /\ status = "running"
    /\ Top.op = "val"
    /\ Len(stack) <= StackLimit
    /\ LET v == TopVal
           indent == Top.depth
           k == Kind(heap, v)
           leaf == Leaf(v, indent)
       IN  IF leaf.t # ""
           THEN \* lines 345-379 and the scalar cases: write one fragment and return
                /\ out' = Append(out, leaf)
                /\ stack' = Pop
                /\ UNCHANGED <<referenceMap, nextRefID, status, derefs>>
           ELSE /\ \* lines 375-384: register an addressable pointer's target
                   IF k = "ptr" /\ CanAddr(v)
                   THEN /\ referenceMap' = (Pointer(heap, v) :> nextRefID) @@ referenceMap
                        /\ nextRefID' = nextRefID + 1
                   ELSE UNCHANGED <<referenceMap, nextRefID>>
                /\ CASE k \in {"ptr", "iface"} ->
                          \* line 388: recurse on v.Elem() at the same depth
                          /\ stack' = Call(Frame("ret", v, indent, 0),
                                           Frame("val", Elem(heap, v), indent, 0))
                          /\ derefs' = IF k = "ptr"
                                       THEN [derefs EXCEPT ![Pointer(heap, v)] = @ + 1]
                                       ELSE derefs
                          /\ UNCHANGED <<out, status>>
                     [] k = "struct" ->
                          \* lines 390-392: the type header, then the field loop
                          /\ out' = Append(out, Tok("struct", v.n, indent, 0))
                          /\ stack' = Append(Pop, Frame("fields", v, indent, 0))
                          /\ UNCHANGED <<status, derefs>>
                     [] k = "map" ->
                          \* lines 419-420
                          /\ out' = Append(out, Tok("map", v.n, indent, 0))
                          /\ stack' = Append(Pop, Frame("entries", v, indent, 0))
                          /\ UNCHANGED <<status, derefs>>
                     [] k \in {"slice", "array"} ->
                          \* line 446
                          /\ out' = Append(out, Tok("slice", v.n, indent, 0))
                          /\ stack' = Append(Pop, Frame("elems", v, indent, 0))
                          /\ UNCHANGED <<status, derefs>>
                     [] k = "bytes" ->
                          \* line 437: Convert(...).Interface() on a read-only value panics
                          /\ status' = "panic"
                          /\ UNCHANGED <<out, stack, derefs>>
    /\ UNCHANGED <<heap, d, nargs, strVars, otherVars>>

\* the goroutine stack is exhausted by a further printValue invocation: the
\* runtime ends the process ("fatal error: stack overflow")
StackOverflow ==
    /\ status = "running"
    /\ Top.op = "val"
    /\ Len(stack) > StackLimit
    /\ status' = "overflow"
    /\ UNCHANGED <<heap, d, referenceMap, nextRefID, stack, out, nargs, derefs, strVars, otherVars>>

\* godump.go:388 the recursive call on v.Elem() has returned: printValue returns
Return ==
    /\ status = "running"
    /\ Top.op = "ret"
    /\ stack' = Pop
    /\ UNCHANGED <<heap, d, referenceMap, nextRefID, out, status, nargs, derefs, strVars, otherVars>>

\* godump.go:394-413 one iteration of the struct case's field loop, or its end
StructField ==
    /\ status = "running"
    /\ Top.op = "fields"
    /\ LET v == TopVal
           indent == Top.depth
           i == Top.i
       IN  IF i < Len(heap[v.n].kids)
           THEN LET fv0 == Field(heap, v, i + 1)
                    fieldVal == IF heap[v.n].unexp THEN forceExported(fv0) ELSE fv0
                    label == Tok(symbol(heap, v.n), v.n, indent, i)
                    s == asStringer(heap, fieldVal)
                    next == Frame("fields", v, indent, i + 1)
                IN  IF s # ""
                    THEN \* lines 405-406: the field's stringer form, no printValue call
                         /\ out' = out \o <<label,
                                Tok(IF s = "nil" THEN "strnil" ELSE "str",
                                    fieldVal.n, indent + 1, Receiver(heap, fieldVal.n))>>
                         /\ stack' = Append(Pop, next)
                    ELSE \* line 408
                         /\ out' = Append(out, label)
                         /\ stack' = Call(next, Frame("val", fieldVal, indent + 1, 0))
           ELSE \* lines 412-413
                /\ out' = Append(out, Tok("close", v.n, indent, 0))
                /\ stack' = Pop
    /\ UNCHANGED <<heap, d, referenceMap, nextRefID, status, nargs, derefs, strVars, otherVars>>

\* godump.go:421-432 one iteration of the map case's loop, or its end
MapEntry ==
    /\ status = "running"
    /\ Top.op = "entries"
    /\ LET v == TopVal
           indent == Top.depth
           i == Top.i
       IN  IF i < Len(heap[v.n].kids)
           THEN IF Truncated(i, d.maxItems)
                THEN \* lines 422-425, 431-432: marker, break, closing bracket
                     /\ out' = out \o <<Tok("trunc", v.n, indent, 0), Tok("close", v.n, indent, 0)>>
                     /\ stack' = Pop
                     /\ UNCHANGED status
                ELSE IF ~CanInterface(v)
                THEN \* line 426: key.Interface() on a key of a read-only map panics
                     /\ status' = "panic"
                     /\ UNCHANGED <<out, stack>>
                ELSE \* lines 426-428
                     /\ out' = Append(out, Tok("key", v.n, indent, i))
                     /\ stack' = Call(Frame("entries", v, indent, i + 1),
                                      Frame("val", MapIndex(heap, v, i + 1), indent + 1, 0))
                     /\ UNCHANGED status
           ELSE /\ out' = Append(out, Tok("close", v.n, indent, 0))
                /\ stack' = Pop
                /\ UNCHANGED status
    /\ UNCHANGED <<heap, d, referenceMap, nextRefID, nargs, derefs, strVars, otherVars>>

\* godump.go:447-457 one iteration of the slice/array case's loop, or its end
SliceElem ==
    /\ status = "running"
    /\ Top.op = "elems"
    /\ LET v == TopVal
           indent == Top.depth
           i == Top.i
       IN  IF i < Len(heap[v.n].kids)
           THEN IF Truncated(i, d.maxItems)
                THEN /\ out' = out \o <<Tok("trunc", v.n, indent, 0), Tok("close", v.n, indent, 0)>>
                     /\ stack' = Pop
                ELSE /\ out' = Append(out, Tok("idx", v.n, indent, i))
                     /\ stack' = Call(Frame("elems", v, indent, i + 1),
                                      Frame("val", Index(heap, v, i + 1), indent + 1, 0))
           ELSE /\ out' = Append(out, Tok("close", v.n, indent, 0))
                /\ stack' = Pop
    /\ UNCHANGED <<heap, d, referenceMap, nextRefID, status, nargs, derefs, strVars, otherVars>>

-----------------------------------------------------------------------------
(* The Dumper's options (godump.go:90-144) *)

\* a limit of zero is refused as well
WithMaxItems_RejectZero(dd, n) == IF n > 0 THEN [dd EXCEPT !.maxItems = n] ELSE dd

\* godump.go:92-99
WithMaxDepth(dd, n) == IF n >= 0 THEN [dd EXCEPT !.maxDepth = n] ELSE dd

\* godump.go:103-110
WithMaxItems(dd, n) == IF n >= 0 THEN [dd EXCEPT !.maxItems = n] ELSE dd

\* godump.go:114-121
WithMaxStringLen(dd, n) == IF n >= 0 THEN [dd EXCEPT !.maxStringLen = n] ELSE dd

\* godump.go:124-129
WithWriter(dd, w) == [dd EXCEPT !.writer = w]

\* godump.go:134-139: the Dumper NewDumper starts from
DefaultDumper ==
    [maxDepth |-> defaultMaxDepth, maxItems |-> defaultMaxItems,
     maxStringLen |-> defaultMaxStringLen, writer |-> "stdout"]

\* an option value: its constructor and the argument it was built with
Options ==
    {[k |-> k, n |-> n] : k \in {"WithMaxDepth", "WithMaxItems", "WithMaxStringLen"},
                          n \in -1..MaxOptN}
      \cup {[k |-> "WithWriter", n |-> "buf"]}

\* godump.go:141: d = opt(d)
ApplyOpt(opt, dd) ==
    CASE opt.k = "WithMaxDepth"     -> WithMaxDepth(dd, opt.n)
      [] opt.k = "WithMaxItems"     -> WithMaxItems(dd, opt.n)
      [] opt.k = "WithMaxStringLen" -> WithMaxStringLen(dd, opt.n)
      [] opt.k = "WithWriter"       -> WithWriter(dd, opt.n)

-----------------------------------------------------------------------------
(* Top-level calls (godump.go:152-218) run by goroutines.  Each call dumps one
   struct handed over by value (writeDump makes it addressable), given by its
   fields: "p1" and "p2" are pointer fields holding the addresses 1 and 2 of two
   ints, "n" is an int field, "bad" is a field whose rendering panics (an
   unexported byte slice in a struct that cannot be addressed).  Every statement
   that reads or writes a package variable is a step of its own. *)

Procs == {"g1", "g2"}

FieldKinds == {"p1", "p2", "n", "bad"}

Target(f) == IF f = "p1" THEN 1 ELSE 2

\* the structs dumped: one pointer, the same pointer twice, two pointers, an int,
\* a field that cannot be read
PointerStructs == {<<"p1">>, <<"p1", "p1">>, <<"p1", "p2">>}
Structs == PointerStructs \cup {<<"n">>, <<"bad">>}

\* godump.go:55-76: what colorize(code, str) returns under the package variables
\* as they are now: an HTML span, ANSI-wrapped text, or the bare text
Colorized == IF colorize = "html" THEN "html" ELSE IF enableColor THEN "ansi" ELSE "plain"

Frag(t, x) == [t |-> t, x |-> x, c |-> Colorized]

\* the deferred function restores the backend only
DeferredRestore_KeepEnabled(prevColorize, prevEnable) ==
    [colorize |-> prevColorize, enableColor |-> TRUE]

\* the deferred function restores the flag only
DeferredRestore_KeepHTML(prevColorize, prevEnable) ==
    [colorize |-> "html", enableColor |-> prevEnable]

\* godump.go:188-191: the deferred function of DumpHTML
DeferredRestore(prevColorize, prevEnable) ==
    [colorize |-> prevColorize, enableColor |-> prevEnable]

\* Dd calling the exit hook before anything else
DdEntry_ExitFirst == "exit"

\* godump.go:216: the first statement of Dd is d.Dump(vs...)
DdEntry == "header"

\* a goroutine that runs no call
IdleCall ==
    [pc |-> "idle", kind |-> "none", val |-> <<>>, i |-> 0,
     prevColorize |-> "ansi", prevEnable |-> FALSE, tmp |-> 0,
     tw |-> <<>>, sb |-> <<>>,
     mine |-> {}, startID |-> 0, seen |-> {},
     before |-> [colorize |-> "ansi", enableColor |-> FALSE], panicking |-> FALSE]

Active == {q \in Procs : calls[q].pc \notin {"idle", "exited", "fatal"}}

\* the record kept of the call of goroutine p when it ends
Ended(p, c, panicked) ==
    [by |-> p, kind |-> c.kind, val |-> c.val, out |-> c.sb, mine |-> c.mine, startID |-> c.startID,
     seen |-> c.seen, before |-> c.before,
     after |-> [colorize |-> colorize, enableColor |-> enableColor],
     panicked |-> panicked]

\* the calls goroutine p has made and ended
CallsBy(p) == Cardinality({i \in DOMAIN hist : hist[i].by = p})

\* the kind of the next call of goroutine p when it runs the calls prog[p] in order
NextKinds(prog, p) ==
    IF CallsBy(p) < Len(prog[p]) THEN {prog[p][CallsBy(p) + 1]} ELSE {}

\* two goroutines, each calling DumpStr once
RacePrograms == [p \in Procs |-> <<"DumpStr">>]

\* one goroutine calls DumpHTML; the other DumpStr, then DumpHTML
BackendPrograms ==
    [p \in Procs |-> IF p = "g1" THEN <<"DumpHTML">> ELSE <<"DumpStr", "DumpHTML">>]

\* the position after field i of the struct has been rendered
Advance(c) ==
    IF c.i < Len(c.val) THEN [c EXCEPT !.pc = "field", !.i = @ + 1]
    ELSE [c EXCEPT !.pc = "flush"]

\* a goroutine calls Dump/DumpStr, DumpHTML or Dd; with seq, only while no other
\* call runs
Start(p, kinds, vals, seq) ==
    /\ calls[p].pc = "idle"
    /\ \A q \in Procs : calls[q].pc \notin {"exited", "fatal"}
    /\ seq => (Active = {})
    /\ Len(hist) + Cardinality(Active) < MaxCalls
    /\ \E k \in kinds, v \in vals :
         calls' = [q \in Procs |->
            IF q = p
            THEN [IdleCall EXCEPT
                    !.pc = IF k = "DumpHTML" THEN "save1"
                           ELSE IF k = "Dd" THEN DdEntry ELSE "header",
                    !.kind = k, !.val = v, !.i = 1,
                    !.startID = nextRefID,
                    !.seen = {calls[r].kind : r \in Active},
                    !.before = [colorize |-> colorize, enableColor |-> enableColor]]
            ELSE IF q \in Active THEN [calls[q] EXCEPT !.seen = @ \cup {k}]
            ELSE calls[q]]
    /\ UNCHANGED <<colorize, enableColor, hist, exitCalls, referenceMap, nextRefID, callFrame>>

\* godump.go:186  prevColorize := colorize
SavePrevColorize(p) ==
    /\ calls[p].pc = "save1"
    /\ calls' = [calls EXCEPT ![p].prevColorize = colorize, ![p].pc = "save2"]
    /\ UNCHANGED <<colorize, enableColor, hist, exitCalls, referenceMap, nextRefID, callFrame>>

\* godump.go:187  prevEnable := enableColor
SavePrevEnable(p) ==
    /\ calls[p].pc = "save2"
    /\ calls' = [calls EXCEPT ![p].prevEnable = enableColor, ![p].pc = "swap1"]
    /\ UNCHANGED <<colorize, enableColor, hist, exitCalls, referenceMap, nextRefID, callFrame>>

\* godump.go:194  colorize = htmlColorize
SetHTMLColorize(p) ==
    /\ calls[p].pc = "swap1"
    /\ colorize' = "html"
    /\ calls' = [calls EXCEPT ![p].pc = "swap2"]
    /\ UNCHANGED <<enableColor, hist, exitCalls, referenceMap, nextRefID, callFrame>>

\* godump.go:195-198  enableColor = true, then the body/pre prefix goes to sb
SetEnableColor(p) ==
    /\ calls[p].pc = "swap2"
    /\ enableColor' = TRUE
    /\ calls' = [calls EXCEPT ![p].sb = Append(@, [t |-> "prefix", x |-> 0, c |-> "none"]),
                              ![p].pc = "header"]
    /\ UNCHANGED <<colorize, hist, exitCalls, referenceMap, nextRefID, callFrame>>

\* godump.go:153, 172, 201  printDumpHeader writes the header line to the sink
Header(p) ==
    /\ calls[p].pc = "header"
    /\ calls' = [calls EXCEPT ![p].sb = Append(@, Frag("hdr", 0)), ![p].pc = "reset"]
    /\ UNCHANGED <<colorize, enableColor, hist, exitCalls, referenceMap, nextRefID, callFrame>>

\* godump.go:334  writeDump replaces the reference table
ResetMap(p) ==
    /\ calls[p].pc = "reset"
    /\ referenceMap' = EmptyMap
    /\ calls' = [calls EXCEPT ![p].pc = "struct"]
    /\ UNCHANGED <<colorize, enableColor, hist, exitCalls, nextRefID, callFrame>>

\* godump.go:390-392  the struct's type header goes to the tabwriter
StructHeader(p) ==
    /\ calls[p].pc = "struct"
    /\ calls' = [calls EXCEPT ![p].tw = Append(@, Frag("type", 0)), ![p].pc = "field"]
    /\ UNCHANGED <<colorize, enableColor, hist, exitCalls, referenceMap, nextRefID, callFrame>>

\* godump.go:395-408  the field's marker and name, then printValue on its value
FieldLine(p) ==
    /\ calls[p].pc = "field"
    /\ LET c == calls[p]
           f == c.val[c.i]
       IN  calls' = [calls EXCEPT ![p].tw = Append(@, Frag("sym", c.i)),
                                 ![p].pc = CASE f = "bad" -> "panic"
                                             [] f = "n"   -> "elem"
                                             [] OTHER     -> "lookup"]
    /\ UNCHANGED <<colorize, enableColor, hist, exitCalls, referenceMap, nextRefID, callFrame>>

\* godump.go:375-380  the pointer's target is looked up; a known one is printed
\* as a back-reference
Lookup(p) ==
    /\ calls[p].pc = "lookup"
    /\ LET c == calls[p]
           ptr == Target(c.val[c.i])
       IN  IF ptr \in DOMAIN referenceMap
           THEN calls' = [calls EXCEPT
                    ![p] = Advance([c EXCEPT !.tw = Append(@, Frag("ref", referenceMap[ptr]))])]
           ELSE calls' = [calls EXCEPT ![p].pc = "store"]
    /\ UNCHANGED <<colorize, enableColor, hist, exitCalls, referenceMap, nextRefID, callFrame>>

\* godump.go:381  referenceMap[ptr] = nextRefID
Store(p) ==
    /\ calls[p].pc = "store"
    /\ LET c == calls[p]
       IN  /\ referenceMap' = (Target(c.val[c.i]) :> nextRefID) @@ referenceMap
           /\ calls' = [calls EXCEPT ![p].mine = @ \cup {nextRefID}, ![p].pc = "incr1"]
    /\ UNCHANGED <<colorize, enableColor, hist, exitCalls, nextRefID, callFrame>>

\* godump.go:377, 381  one goroutine writes the map while another reads or writes
\* it: the Go runtime may detect it and end the process ("fatal error: concurrent
\* map writes" / "concurrent map read and map write")
MapFault ==
    /\ \E p, q \in Procs :
         p # q /\ calls[p].pc = "store" /\ calls[q].pc \in {"lookup", "store"}
    /\ calls' = [r \in Procs |-> [calls[r] EXCEPT !.pc = "fatal"]]
    /\ UNCHANGED <<colorize, enableColor, hist, exitCalls, referenceMap, nextRefID, callFrame>>

\* godump.go:382  nextRefID++ : the load
IncrLoad(p) ==
    /\ calls[p].pc = "incr1"
    /\ calls' = [calls EXCEPT ![p].tmp = nextRefID, ![p].pc = "incr2"]
    /\ UNCHANGED <<colorize, enableColor, hist, exitCalls, referenceMap, nextRefID, callFrame>>

\* godump.go:382  nextRefID++ : the store
IncrStore(p) ==
    /\ calls[p].pc = "incr2"
    /\ nextRefID' = calls[p].tmp + 1
    /\ calls' = [calls EXCEPT ![p].pc = "elem"]
    /\ UNCHANGED <<colorize, enableColor, hist, exitCalls, referenceMap, callFrame>>

\* godump.go:388, 471-472  the int (a field's own, or a pointer's target) is printed
PrintElem(p) ==
    /\ calls[p].pc = "elem"
    /\ LET c == calls[p]
       IN  calls' = [calls EXCEPT ![p] = Advance([c EXCEPT !.tw = Append(@, Frag("val", c.val[c.i]))])]
    /\ UNCHANGED <<colorize, enableColor, hist, exitCalls, referenceMap, nextRefID, callFrame>>

\* godump.go:156, 175, 204-205  tw.Flush() hands the buffered text to the sink;
\* DumpHTML then appends its suffix
Flush(p) ==
    /\ calls[p].pc = "flush"
    /\ LET c == calls[p]
           flushed == c.sb \o c.tw
       IN  calls' = [calls EXCEPT
              ![p].tw = <<>>,
              ![p].sb = IF c.kind = "DumpHTML"
                        THEN Append(flushed, [t |-> "suffix", x |-> 0, c |-> "none"])
                        ELSE flushed,
              ![p].pc = CASE c.kind = "DumpHTML" -> "restore1"
                          [] c.kind = "Dd"       -> "exit"
                          [] OTHER               -> "return"]
    /\ UNCHANGED <<colorize, enableColor, hist, exitCalls, referenceMap, nextRefID, callFrame>>

\* godump.go:437  Convert(...).Interface() panics on the read-only field: DumpHTML's
\* deferred function runs, any other call is left at once
Panic(p) ==
    /\ calls[p].pc = "panic"
    /\ IF calls[p].kind = "DumpHTML"
       THEN /\ calls' = [calls EXCEPT ![p].panicking = TRUE, ![p].pc = "restore1"]
            /\ UNCHANGED hist
       ELSE /\ hist' = Append(hist, Ended(p, calls[p], TRUE))
            /\ calls' = [calls EXCEPT ![p] = IdleCall]
    /\ UNCHANGED <<colorize, enableColor, exitCalls, referenceMap, nextRefID, callFrame>>

\* godump.go:189  colorize = prevColorize
RestoreColorize(p) ==
    /\ calls[p].pc = "restore1"
    /\ colorize' = DeferredRestore(calls[p].prevColorize, calls[p].prevEnable).colorize
    /\ calls' = [calls EXCEPT ![p].pc = "restore2"]
    /\ UNCHANGED <<enableColor, hist, exitCalls, referenceMap, nextRefID, callFrame>>

\* godump.go:190  enableColor = prevEnable
RestoreEnable(p) ==
    /\ calls[p].pc = "restore2"
    /\ enableColor' = DeferredRestore(calls[p].prevColorize, calls[p].prevEnable).enableColor
    /\ calls' = [calls EXCEPT ![p].pc = "return"]
    /\ UNCHANGED <<colorize, hist, exitCalls, referenceMap, nextRefID, callFrame>>

\* godump.go:217  exitFunc(1): os.Exit ends the process, a hook set by a test returns
ExitHook(p) ==
    /\ calls[p].pc = "exit"
    /\ exitCalls' = Append(exitCalls, 1)
    /\ \E returns \in BOOLEAN :
         calls' = [calls EXCEPT ![p].pc = IF returns THEN "return" ELSE "exited"]
    /\ UNCHANGED <<colorize, enableColor, hist, referenceMap, nextRefID, callFrame>>

\* the call returns to its caller (DumpHTML after its deferred function)
ReturnCall(p) ==
    /\ calls[p].pc = "return"
    /\ hist' = Append(hist, Ended(p, calls[p], calls[p].panicking))
    /\ calls' = [calls EXCEPT ![p] = IdleCall]
    /\ UNCHANGED <<colorize, enableColor, exitCalls, referenceMap, nextRefID, callFrame>>

-----------------------------------------------------------------------------
(* The inputs: value graphs a Go program can build, and Dumper configurations *)

\* nodes reached from S through struct fields, array elements and interface
\* contents (values held inline, by copy), in at most k steps
InlineKids(h, n) ==
    IF h[n].kind \in {"struct", "array", "iface"} THEN Range(h[n].kids) ELSE {}

RECURSIVE InlineReach(_, _, _)
InlineReach(h, S, k) ==
    IF k = 0 THEN S
    ELSE InlineReach(h, S \cup UNION {InlineKids(h, n) : n \in S}, k - 1)

\* a heap Go can hold: the root is a value handed over as `any` (never of interface
\* kind), an interface holds a concrete value, a non-nil pointer's type inherits the
\* String method of a non-pointer target type, and no value contains itself inline
\* (every cycle passes through a pointer, a slice or a map)
Realizable(h) ==
    /\ h[1].kind # "iface"
    /\ \A n \in DOMAIN h :
         /\ (h[n].kind = "iface") => ~h[n].str
         /\ (h[n].kind = "iface" /\ ~h[n].isnil) => h[h[n].kids[1]].kind # "iface"
         /\ (h[n].kind = "ptr" /\ ~h[n].isnil
               /\ h[h[n].kids[1]].kind \notin {"ptr", "iface"}
               /\ h[h[n].kids[1]].str) => h[n].str
         /\ n \notin InlineReach(h, InlineKids(h, n), Len(h))

\* a chain of nodes 1..Len(inner)+1: node i refers to node i+1, the last node is `last`
Graph(inner, last) ==
    [i \in 1..(Len(inner) + 1) |-> IF i <= Len(inner) THEN inner[i] ELSE last]

\* Shapes: every chain of up to MaxChain pointers, interfaces, structs, slices and
\* maps that ends in a scalar, in a nil pointer, or in a reference back to one of
\* its nodes (a cycle)
ShapeLast(L) ==
    {Node(k, <<b>>, FALSE, FALSE, FALSE) : k \in InnerKinds, b \in 1..L}
      \cup {Node("leaf", <<>>, FALSE, FALSE, FALSE), Node("ptr", <<>>, TRUE, FALSE, FALSE)}

Shapes ==
    UNION { UNION { { Graph([i \in 1..(L - 1) |-> Node(ks[i], <<i + 1>>, FALSE, FALSE, FALSE)], last)
                      : last \in ShapeLast(L) }
                    : ks \in [1..(L - 1) -> InnerKinds] }
            : L \in 1..MaxChain }

\* Terminals: the values that refer to nothing, with and without a String method
Terminals ==
    {Node(k, <<>>, FALSE, s, FALSE) : k \in {"leaf", "chan", "func", "slice", "map", "struct", "bytes"},
                                      s \in BOOLEAN}
      \cup {Node(k, <<>>, TRUE, s, FALSE) : k \in {"chan", "func", "ptr", "slice", "map", "bytes"},
                                           s \in BOOLEAN}
      \cup {Node("iface", <<>>, TRUE, FALSE, FALSE)}

\* Holders: the values that hold node c: a pointer, an interface, a struct with one
\* field (exported or not), a slice or map of 1..MaxWidth entries, an array
Holders(c) ==
    {Node("ptr", <<c>>, FALSE, s, FALSE) : s \in BOOLEAN}
      \cup {Node("iface", <<c>>, FALSE, FALSE, FALSE)}
      \cup {Node("struct", <<c>>, FALSE, s, u) : s \in BOOLEAN, u \in BOOLEAN}
      \cup {Node("slice", Rep(c, w), FALSE, s, FALSE) : w \in 1..MaxWidth, s \in BOOLEAN}
      \cup {Node("map", Rep(c, w), FALSE, FALSE, FALSE) : w \in 1..MaxWidth}
      \cup {Node("array", <<c>>, FALSE, FALSE, FALSE)}

\* Outer holders of node 2: a pointer (its type inherits the target's String
\* method) or a map (its values are copies, not addressable)
Outers(p) ==
    {Node("ptr", <<2>>, FALSE, p.str /\ p.kind \notin {"ptr", "iface"}, FALSE),
     Node("map", <<2>>, FALSE, FALSE, FALSE)}

Flagged ==
    {Graph(<<>>, t) : t \in Terminals}
      \cup UNION { {Graph(<<p>>, t) : p \in Holders(2)} : t \in Terminals }
      \cup UNION { UNION { {Graph(<<g, p>>, t) : g \in Outers(p)} : p \in Holders(3) }
                   : t \in Terminals }

\* the same graph with every struct held directly in a struct field being the
\* value of an embedded field (type Derived struct { Base; ... })
Embedded(h) ==
    [n \in DOMAIN h |->
        IF h[n].kind = "struct"
           /\ \E m \in DOMAIN h : h[m].kind = "struct" /\ n \in Range(h[m].kids)
        THEN [h[n] EXCEPT !.anon = TRUE]
        ELSE h[n]]

\* Records: a struct of two declared fields of different types, in either order:
\* one a struct of one field (embedded or named, with or without a String
\* method), the other a scalar, a channel or a nil pointer
Records ==
    {<<Node("struct", kids, FALSE, FALSE, u),
       [Node("struct", <<4>>, FALSE, s, FALSE) EXCEPT !.anon = a],
       b,
       Node("leaf", <<>>, FALSE, FALSE, FALSE)>> :
        kids \in {<<2, 3>>, <<3, 2>>}, u \in BOOLEAN, s \in BOOLEAN, a \in BOOLEAN,
        b \in {Node("leaf", <<>>, FALSE, FALSE, FALSE), Node("chan", <<>>, FALSE, FALSE, FALSE),
               Node("ptr", <<>>, TRUE, FALSE, FALSE)}}

Config(md, mi) == [maxDepth |-> md, maxItems |-> mi, maxStringLen |-> defaultMaxStringLen]

Inputs ==
    {[heap |-> g, d |-> Config(md, MaxItemsCfg)] :
        g \in {h \in Shapes \cup {Embedded(e) : e \in Shapes} : Realizable(h)},
        md \in 0..MaxDepthCfg}
      \cup
    {[heap |-> g, d |-> Config(md, mi)] :
        g \in {h \in Flagged : Realizable(h)}, md \in {0, MaxDepthCfg}, mi \in 0..MaxItemsCfg}
      \cup
    {[heap |-> g, d |-> Config(md, MaxItemsCfg)] : g \in Records, md \in 0..MaxDepthCfg}

\* the parts of the state a specification does not exercise
TravIdle ==
    /\ heap = <<Node("leaf", <<>>, FALSE, FALSE, FALSE)>>
    /\ d = Config(MaxDepthCfg, MaxItemsCfg)
    /\ stack = <<>>
    /\ out = <<>>
    /\ status = "idle"
    /\ nargs = 0
    /\ derefs = <<>>

StrIdle == sv = <<>> /\ sbuf = <<>> /\ spc = "off"

CallIdle ==
    /\ colorize = "ansi"
    /\ enableColor = FALSE
    /\ calls = [p \in Procs |-> IdleCall]
    /\ hist = <<>>
    /\ exitCalls = <<>>

HexIdle ==
    /\ hb = [b |-> <<>>, cap |-> 0]
    /\ hout = [phase |-> "off", len |-> 0, cap |-> 0, lines |-> <<>>]

OptIdle == dumper = DefaultDumper /\ applied = <<>>

HdrIdle == frames = <<>> /\ hdr = [pc |-> "off", i |-> 2, file |-> 0, sink |-> <<>>]

ColIdle ==
    /\ env = [NO_COLOR |-> "", FORCE_COLOR |-> ""]
    /\ cz = [pc |-> "off", backend |-> "none", code |-> "", str |-> <<>>, res |-> <<>>]

\* the state after package initialisation (godump.go:42-46) with a Dumper built
Init ==
    /\ \E in \in Inputs : heap = in.heap /\ d = in.d
    /\ referenceMap = EmptyMap
    /\ nextRefID = 1
    /\ stack = <<>>
    /\ out = <<>>
    /\ status = "idle"
    /\ nargs = 0
    /\ derefs = <<>>
    /\ StrIdle
    /\ CallIdle
    /\ HexIdle
    /\ OptIdle
    /\ HdrIdle
    /\ ColIdle

Next ==
    \/ WriteDump
    \/ NextArg
    \/ Finish
    \/ PrintValue
    \/ StackOverflow
    \/ Return
    \/ StructField
    \/ MapEntry
    \/ SliceElem

Spec == Init /\ [][Next]_vars

-----------------------------------------------------------------------------
(* Sanity of the model *)

TypeOK ==
    /\ status \in {"idle", "running", "done", "panic", "overflow"}
    /\ nextRefID \in Nat \ {0}
    /\ DOMAIN referenceMap \subseteq DOMAIN heap
    /\ nargs \in 0..MaxArgs
    /\ (status = "running") => (Len(stack) >= 1 /\ stack[1].op = "args")

\* The stack limit is reached only by a recursion that repeats itself: the
\* invocation that overflows has the arguments of an invocation already on the
\* stack, with nothing in between but pointer/interface unwrapping that
\* registers no pointer.
OverflowIsLoop ==
    (status = "overflow") =>
        \E i \in 1..(Len(stack) - 1) :
            /\ stack[i].op = "ret"
            /\ stack[i].n = Top.n /\ stack[i].addr = Top.addr
            /\ stack[i].ro = Top.ro /\ stack[i].depth = Top.depth
            /\ \A k \in i..(Len(stack) - 1) :
                 /\ stack[k].op = "ret"
                 /\ ~(heap[stack[k].n].kind = "ptr" /\ stack[k].addr)

-----------------------------------------------------------------------------
(* Claims *)

\* C1: for every finite value graph, cycles of any shape included, and every
\* maxDepth >= 0, a top-level dump call terminates: printValue's recursion never
\* outgrows the stack (every branch ends in a leaf, a depth marker or a
\* back-reference).
C1_DumpTerminates == status # "overflow"

\* C2: at the start of each top-level call the reference table is empty and the
\* next-id counter is 1, so within a call the k-th registered pointer target has
\* id k: while a call runs, the ids in the table are exactly 1..(number of
\* registered targets) and the counter is one more than that number.
C2_CounterFreshPerCall ==
    (status = "running") =>
        /\ nextRefID = Cardinality(DOMAIN referenceMap) + 1
        /\ \A a \in DOMAIN referenceMap :
             referenceMap[a] \in 1..Cardinality(DOMAIN referenceMap)

\* C3: within one top-level call each distinct pointer target is descended into
\* at most once, whatever position the pointer is met in (top-level argument,
\* struct field, slice element, map value, interface content); every later visit
\* prints the back-reference and does not descend.
C3_TargetDescendedOnce ==
    \A a \in DOMAIN derefs : derefs[a] <= 1

\* C4: when the same (non-nil, non-stringer) pointer is passed as two top-level
\* arguments of one call, both occurrences resolve to one reference id: the target
\* is registered and the later occurrence is printed as a back-reference to it.
C4_SharedArgsShareId ==
    (status = "done" /\ nargs >= 2 /\ heap[1].kind = "ptr" /\ ~heap[1].isnil
        /\ ~ImplementsStringer(heap, 1)) =>
        /\ Pointer(heap, ValueOf(1)) \in DOMAIN referenceMap
        /\ \E i \in DOMAIN out :
             out[i].t = "ref" /\ out[i].x = referenceMap[Pointer(heap, ValueOf(1))]

\* C5: a node whose depth exceeds maxDepth is rendered as the '... (max depth)'
\* marker and nothing of it is read: every fragment written for a node deeper
\* than maxDepth is that marker (no String() result, no nil form, no content).
C5_NothingBelowMaxDepth ==
    \A i \in DOMAIN out : (out[i].d > d.maxDepth) => (out[i].t = "maxdepth")

\* the fragments of one container rendering: o is the position of its opening
\* bracket, j that of its closing bracket
OpenOf(j) ==
    CHOOSE o \in 1..(j - 1) :
        /\ out[o].t \in {"map", "slice"} /\ out[o].n = out[j].n /\ out[o].d = out[j].d
        /\ \A k \in (o + 1)..(j - 1) :
             ~(out[k].t \in {"map", "slice"} /\ out[k].n = out[j].n /\ out[k].d = out[j].d)

EntriesOf(j) ==
    {k \in (OpenOf(j) + 1)..(j - 1) :
        out[k].t \in {"key", "idx"} /\ out[k].n = out[j].n /\ out[k].d = out[j].d}

MarkersOf(j) ==
    {k \in (OpenOf(j) + 1)..(j - 1) :
        out[k].t = "trunc" /\ out[k].n = out[j].n /\ out[k].d = out[j].d}

\* C6: every rendered slice, array or map (hex-dumped byte slices aside) with n
\* entries shows, up to its closing bracket, exactly min(n, maxItems) entries,
\* numbered 0.. in order; if n > maxItems exactly one '... (truncated)' marker
\* follows them, directly before the closing bracket; if n <= maxItems no marker
\* appears.
C6_ItemsTruncatedAtMaxItems ==
    \A j \in DOMAIN out :
        (out[j].t = "close" /\ heap[out[j].n].kind \in {"map", "slice", "array"}) =>
            LET n == Len(heap[out[j].n].kids)
                shown == Min(n, d.maxItems)
            IN  /\ Cardinality(EntriesOf(j)) = shown
                /\ {out[k].x : k \in EntriesOf(j)} = 0..(shown - 1)
                /\ \A k1, k2 \in EntriesOf(j) : (k1 < k2) => (out[k1].x < out[k2].x)
                /\ IF n > d.maxItems
                   THEN MarkersOf(j) = {j - 1}
                   ELSE MarkersOf(j) = {}

\* C6 witness: a container with more entries than a positive maxItems has been
\* rendered: an entry, then the marker, then the closing bracket.
C6_Witness ==
    \E j \in DOMAIN out :
        /\ out[j].t = "close" /\ heap[out[j].n].kind \in {"map", "slice"}
        /\ j > 2 /\ out[j - 1].t = "trunc"
        /\ EntriesOf(j) # {}

-----------------------------------------------------------------------------
(* The string case of printValue (godump.go:458-464), on its own: a string is a
   sequence of runes, each named by a short word ("nl" is the newline rune, "bs"
   the backslash, "ellipsis" the one-rune ellipsis). *)

ControlRunes == {"nl", "tab", "cr", "vt", "ff", "esc"}

Runes == {"a", "bs"} \cup ControlRunes

\* godump.go:547-554: the replacement table
replacer(r) ==
    CASE r = "nl"  -> <<"bs", "n">>
      [] r = "tab" -> <<"bs", "t">>
      [] r = "cr"  -> <<"bs", "r">>
      [] r = "vt"  -> <<"bs", "v">>
      [] r = "ff"  -> <<"bs", "f">>
      [] r = "esc" -> <<"bs", "x", "1", "b">>
      [] OTHER     -> <<r>>

RECURSIVE escapeControl(_)
\* godump.go:557-559
escapeControl(s) ==
    IF s = <<>> THEN <<>> ELSE replacer(Head(s)) \o escapeControl(Tail(s))

\* godump.go:460: utf8.RuneCountInString
RuneCountInString(s) == Len(s)

Strings == UNION {[1..n -> Runes] : n \in 0..MaxStr}

InitStr ==
    /\ sv \in Strings
    /\ \E n \in -1..MaxStrLenCfg :
            d = WithMaxStringLen(Config(MaxDepthCfg, MaxItemsCfg), n)
    /\ sbuf = <<>>
    /\ spc = "string"
    /\ heap = <<Node("leaf", <<>>, FALSE, FALSE, FALSE)>>
    /\ referenceMap = EmptyMap
    /\ nextRefID = 1
    /\ stack = <<>>
    /\ out = <<>>
    /\ status = "idle"
    /\ nargs = 0
    /\ derefs = <<>>
    /\ CallIdle
    /\ HexIdle
    /\ OptIdle
    /\ HdrIdle
    /\ ColIdle

\* godump.go:458-464: escape, then count and cut the escaped text
PrintString ==
    /\ spc = "string"
    /\ LET str == escapeControl(sv)
       IN  sbuf' = IF RuneCountInString(str) > d.maxStringLen
                   THEN Append(SubSeq(str, 1, d.maxStringLen), "ellipsis")
                   ELSE str
    /\ spc' = "done"
    /\ UNCHANGED <<sv, travVars, otherVars>>

NextStr == PrintString

SpecStr == InitStr /\ [][NextStr]_vars

-----------------------------------------------------------------------------
(* NewDumper (godump.go:133-145): the options are applied one by one, in
   argument order *)

InitOpts ==
    /\ dumper = DefaultDumper
    /\ applied = <<>>
    /\ referenceMap = EmptyMap
    /\ nextRefID = 1
    /\ TravIdle
    /\ StrIdle
    /\ CallIdle
    /\ HexIdle
    /\ HdrIdle
    /\ ColIdle

\* godump.go:140-142: one iteration of  for _, opt := range opts { d = opt(d) }
ApplyOption ==
    /\ Len(applied) < MaxOpts
    /\ \E opt \in Options :
         /\ dumper' = ApplyOpt(opt, dumper)
         /\ applied' = Append(applied, opt)
    /\ UNCHANGED <<travVars, strVars, callVars, hexVars, hdrVars, colVars>>

NextOpts == ApplyOption

SpecOpts == InitOpts /\ [][NextOpts]_vars

-----------------------------------------------------------------------------
(* The byte-slice case of printValue (godump.go:435-441) and
   formatByteSliceAsHexDump (godump.go:257-322).  A byte is its number and a
   slice is its bytes with its capacity; the dump is its header (length and
   capacity), one row per lineLen bytes, and the closing brace.  A row is its
   offset (eight characters), lineLen cells of characters and the ASCII column, a
   character of that column being its code. *)

asciiMaxLen == 16

ByteVals == {10, 32, 126, 127, 200}

ByteSlices ==
    {[b |-> s, cap |-> Len(s) + x] :
        s \in UNION {[1..n -> ByteVals] : n \in 0..MaxBytes}
                 \cup {Rep(126, n) : n \in {lineLen, lineLen + 1}},
        x \in 0..1}

HexDigits == <<"0", "1", "2", "3", "4", "5", "6", "7", "8", "9", "a", "b", "c", "d", "e", "f">>

RECURSIVE Pow16(_)
Pow16(k) == IF k = 0 THEN 1 ELSE 16 * Pow16(k - 1)

\* fmt.Sprintf("%0<w>x", n): n in hexadecimal, w digits (n below 16^w)
HexOf(n, w) == [k \in 1..w |-> HexDigits[((n \div Pow16(w - k)) % 16) + 1]]

Ascii_Through127(c) == IF c >= 32 /\ c <= 127 THEN c ELSE 46

\* godump.go:304-309: a printable byte shows as itself, any other as "."
Ascii(c) == IF c >= 32 /\ c <= 126 THEN c ELSE 46

\* godump.go:283-295: the cell of position j (from 0) of a row
HexCell(line, j) ==
    (IF j < Len(line) THEN HexOf(line[j + 1], 2) \o <<" ">> ELSE <<" ", " ", " ">>)
      \o (IF j = 7 THEN <<" ">> ELSE <<>>)

\* godump.go:271-316: the row of the bytes b[i:end], i counted from 0
HexLineOf(b, i) ==
    LET end == Min(i + lineLen, Len(b))
        line == SubSeq(b, i + 1, end)
    IN  [t |-> "hex", offset |-> HexOf(i, 8),
         cells |-> [j \in 1..lineLen |-> HexCell(line, j - 1)],
         ascii |-> [k \in 1..Len(line) |-> Ascii(line[k])]
                     \o Rep(32, IF Len(line) < asciiMaxLen THEN asciiMaxLen - Len(line) ELSE 0)]

InitHex ==
    /\ hb \in ByteSlices
    /\ hout = [phase |-> "bytes", len |-> 0, cap |-> 0, lines |-> <<>>]
    /\ \E mi \in 0..MaxItemsCfg : d = Config(MaxDepthCfg, mi)
    /\ heap = <<Node("bytes", <<>>, FALSE, FALSE, FALSE)>>
    /\ referenceMap = EmptyMap
    /\ nextRefID = 1
    /\ stack = <<>>
    /\ out = <<>>
    /\ status = "idle"
    /\ nargs = 0
    /\ derefs = <<>>
    /\ StrIdle
    /\ CallIdle
    /\ OptIdle
    /\ HdrIdle
    /\ ColIdle

\* godump.go:435-438, 268: a slice of bytes is converted to []byte and handed to
\* formatByteSliceAsHexDump, which writes the header
HexHeader ==
    /\ hout.phase = "bytes"
    /\ hout' = [hout EXCEPT !.phase = "lines", !.len = Len(hb.b), !.cap = hb.cap]
    /\ UNCHANGED <<hb, travVars, strVars, callVars, optVars, hdrVars, colVars>>

\* godump.go:270-316: one iteration of  for i := 0; i < len(b); i += lineLen
HexLine ==
    /\ hout.phase = "lines"
    /\ LET i == Len(hout.lines) * lineLen
       IN  /\ i < Len(hb.b)
           /\ hout' = [hout EXCEPT !.lines = Append(@, HexLineOf(hb.b, i))]
    /\ UNCHANGED <<hb, travVars, strVars, callVars, optVars, hdrVars, colVars>>

\* godump.go:319-320, 439-440: the closing brace; the dump is printed
HexClose ==
    /\ hout.phase = "lines"
    /\ Len(hout.lines) * lineLen >= Len(hb.b)
    /\ hout' = [hout EXCEPT !.phase = "done"]
    /\ UNCHANGED <<hb, travVars, strVars, callVars, optVars, hdrVars, colVars>>

NextHex == HexHeader \/ HexLine \/ HexClose

SpecHex == InitHex /\ [][NextHex]_vars

-----------------------------------------------------------------------------
(* The location header: printDumpHeader (godump.go:221-237) and
   findFirstNonInternalFrame (godump.go:243-254).  frames[k] is the frame
   callerFn(k + 1) returns, so frames[1] is the frame at index 2; callerFn reports
   !ok beyond the end of the stack.  A frame is the kind of its function:
   "engine" (a function of package godump), "named" (a function outside the
   engine whose qualified name holds "godump", such as a function of a package
   example.com/godumputil), "user" (any other function) and "nofunc"
   (runtime.FuncForPC returns nil).  The file and line of a frame are taken to be
   its index. *)

EngineFrames == 3      \* godump.go:147-149, 152, 210-217: Dd -> Dumper.Dd -> Dumper.Dump
lookback == 10         \* godump.go:244

\* the stacks a dump call can see: its own frames innermost, then its callers; a
\* stubbed callerFn (godump_test.go:662-696) is the empty stack
Stacks ==
    {<<>>} \cup
    {Rep("engine", e) \o Rep("named", g) \o t :
        e \in 1..EngineFrames, g \in 0..MaxNamed,
        t \in UNION {[1..n -> {"user", "nofunc"}] : n \in 0..MaxOuter}}

\* godump.go:250: strings.Contains(fn.Name(), "godump")
NameContainsGodump(f) == f \in {"engine", "named"}

InitHdr ==
    /\ frames \in Stacks
    /\ hdr = [pc |-> "loop", i |-> 2, file |-> 0, sink |-> <<>>]
    /\ referenceMap = EmptyMap
    /\ nextRefID = 1
    /\ TravIdle
    /\ StrIdle
    /\ CallIdle
    /\ HexIdle
    /\ OptIdle
    /\ ColIdle

\* godump.go:244-252: one iteration of  for i := 2; i < 10; i++
Probe ==
    /\ hdr.pc = "loop"
    /\ hdr.i < lookback
    /\ LET k == hdr.i - 1
       IN  IF k > Len(frames)
           THEN hdr' = [hdr EXCEPT !.pc = "return"]                      \* !ok: break
           ELSE IF frames[k] = "nofunc" \/ ~NameContainsGodump(frames[k])
           THEN hdr' = [hdr EXCEPT !.pc = "return", !.file = hdr.i]      \* return file, line
           ELSE hdr' = [hdr EXCEPT !.i = hdr.i + 1]
    /\ UNCHANGED <<frames, travVars, strVars, callVars, hexVars, optVars, colVars>>

\* godump.go:244, 253: the loop ends at i = 10 and "", 0 is returned
LoopEnd ==
    /\ hdr.pc = "loop"
    /\ hdr.i >= lookback
    /\ hdr' = [hdr EXCEPT !.pc = "return"]
    /\ UNCHANGED <<frames, travVars, strVars, callVars, hexVars, optVars, colVars>>

\* godump.go:222-237: printDumpHeader returns on file == "", else writes the line
PrintDumpHeader ==
    /\ hdr.pc = "return"
    /\ hdr' = [hdr EXCEPT !.pc = "done",
                          !.sink = IF hdr.file = 0 THEN <<>>
                                   ELSE <<[t |-> "hdr", file |-> hdr.file]>>]
    /\ UNCHANGED <<frames, travVars, strVars, callVars, hexVars, optVars, colVars>>

NextHdr == Probe \/ LoopEnd \/ PrintDumpHeader

SpecHdr == InitHdr /\ [][NextHdr]_vars

-----------------------------------------------------------------------------
(* The color backends (godump.go:16-26, 52-76) and detectColor
   (godump.go:562-570).  A string is the sequence of its characters; an escape
   sequence or a tag is one element.  An environment variable that is unset reads
   as "", as os.Getenv returns it. *)

colorReset == "ESC[0m"
colorGray == "ESC[90m"
colorYellow == "ESC[33m"
colorLime == "ESC[38;5;113m"
colorCyan == "ESC[38;5;38m"
colorNote == "ESC[38;5;38m"
colorRef == "ESC[38;5;247m"
colorMeta == "ESC[38;5;170m"
colorDefault == "ESC[38;5;208m"

\* the codes handed to colorize, and one that is no role of the engine
\* (godump_test.go:201)
Codes ==
    {colorGray, colorYellow, colorLime, colorCyan, colorNote, colorRef, colorMeta,
     colorDefault, "ESC[999m"}

\* godump.go:63-71
htmlColorMap ==
    (colorGray :> "#999") @@ (colorYellow :> "#ffb400") @@ (colorLime :> "#80ff80")
      @@ (colorNote :> "#40c0ff") @@ (colorRef :> "#aaa") @@ (colorMeta :> "#d087d0")
      @@ (colorDefault :> "#ff7f00")

\* Go's map read: the zero value for a key that is not in the map
MapGet(m, k) == IF k \in DOMAIN m THEN m[k] ELSE ""

\* godump.go:55-60
ansiColorize(code, str) ==
    IF ~enableColor THEN str ELSE <<code>> \o str \o <<colorReset>>

htmlColorize_DropUnknown(code, str) ==
    IF code \in DOMAIN htmlColorMap
    THEN <<"<span style=\"color:", htmlColorMap[code], "\">">> \o str \o <<"</span>">>
    ELSE <<>>

\* godump.go:74-76
htmlColorize(code, str) ==
    <<"<span style=\"color:", MapGet(htmlColorMap, code), "\">">> \o str \o <<"</span>">>

detectColor_ForceFirst(e) ==
    IF e.FORCE_COLOR # "" THEN TRUE
    ELSE IF e.NO_COLOR # "" THEN FALSE
    ELSE TRUE

\* godump.go:562-570
detectColor(e) ==
    IF e.NO_COLOR # "" THEN FALSE
    ELSE IF e.FORCE_COLOR # "" THEN TRUE
    ELSE TRUE

EnvVals == {"", "0", "1"}
TextChars == {"a", "<", "%"}
Texts == UNION {[1..n -> TextChars] : n \in 0..MaxText}

\* before package initialisation: enableColor has its zero value
InitColor ==
    /\ env \in [NO_COLOR : EnvVals, FORCE_COLOR : EnvVals]
    /\ cz = [pc |-> "init", backend |-> "none", code |-> "", str |-> <<>>, res |-> <<>>]
    /\ colorize = "ansi"
    /\ enableColor = FALSE
    /\ calls = [p \in Procs |-> IdleCall]
    /\ hist = <<>>
    /\ exitCalls = <<>>
    /\ referenceMap = EmptyMap
    /\ nextRefID = 1
    /\ TravIdle
    /\ StrIdle
    /\ HexIdle
    /\ OptIdle
    /\ HdrIdle

\* godump.go:43  enableColor = detectColor(), at package initialisation
DetectColor ==
    /\ cz.pc = "init"
    /\ enableColor' = detectColor(env)
    /\ cz' = [cz EXCEPT !.pc = "ready"]
    /\ UNCHANGED <<colorize, calls, hist, exitCalls, env, travVars, strVars, hexVars,
                   optVars, hdrVars>>

\* godump.go:55-60: a call of the ANSI backend
AnsiColorize ==
    /\ cz.pc \in {"ready", "called"}
    /\ \E code \in Codes, str \in Texts :
         cz' = [pc |-> "called", backend |-> "ansi", code |-> code, str |-> str,
                res |-> ansiColorize(code, str)]
    /\ UNCHANGED <<callVars, env, travVars, strVars, hexVars, optVars, hdrVars>>

\* godump.go:74-76: a call of the HTML backend
HtmlColorize ==
    /\ cz.pc \in {"ready", "called"}
    /\ \E code \in Codes, str \in Texts :
         cz' = [pc |-> "called", backend |-> "html", code |-> code, str |-> str,
                res |-> htmlColorize(code, str)]
    /\ UNCHANGED <<callVars, env, travVars, strVars, hexVars, optVars, hdrVars>>

NextColor == DetectColor \/ AnsiColorize \/ HtmlColorize

SpecColor == InitColor /\ [][NextColor]_vars

-----------------------------------------------------------------------------
(* Specifications of the call model *)

\* package initialisation (godump.go:42-52): detectColor decides enableColor
InitCalls ==
    /\ colorize = "ansi"
    /\ enableColor \in BOOLEAN
    /\ calls = [p \in Procs |-> IdleCall]
    /\ hist = <<>>
    /\ exitCalls = <<>>
    /\ referenceMap = EmptyMap
    /\ nextRefID = 1
    /\ TravIdle
    /\ StrIdle
    /\ HexIdle
    /\ OptIdle
    /\ HdrIdle
    /\ ColIdle

\* one goroutine calls DumpStr and DumpHTML, one call after the other
NextCalls ==
    \/ Start("g1", {"DumpStr", "DumpHTML"}, Structs, TRUE)
    \/ \E p \in Procs : SavePrevColorize(p)
    \/ \E p \in Procs : SavePrevEnable(p)
    \/ \E p \in Procs : SetHTMLColorize(p)
    \/ \E p \in Procs : SetEnableColor(p)
    \/ \E p \in Procs : Header(p)
    \/ \E p \in Procs : ResetMap(p)
    \/ \E p \in Procs : StructHeader(p)
    \/ \E p \in Procs : FieldLine(p)
    \/ \E p \in Procs : Lookup(p)
    \/ \E p \in Procs : Store(p)
    \/ \E p \in Procs : IncrLoad(p)
    \/ \E p \in Procs : IncrStore(p)
    \/ \E p \in Procs : PrintElem(p)
    \/ \E p \in Procs : Flush(p)
    \/ \E p \in Procs : Panic(p)
    \/ \E p \in Procs : RestoreColorize(p)
    \/ \E p \in Procs : RestoreEnable(p)
    \/ \E p \in Procs : ReturnCall(p)

SpecCalls == InitCalls /\ [][NextCalls]_vars

\* two goroutines each call DumpStr once, interleaved statement by statement
NextRace ==
    \/ \E p \in Procs : Start(p, NextKinds(RacePrograms, p), PointerStructs, FALSE)
    \/ \E p \in Procs : Header(p)
    \/ \E p \in Procs : ResetMap(p)
    \/ \E p \in Procs : StructHeader(p)
    \/ \E p \in Procs : FieldLine(p)
    \/ \E p \in Procs : Lookup(p)
    \/ \E p \in Procs : Store(p)
    \/ MapFault
    \/ \E p \in Procs : IncrLoad(p)
    \/ \E p \in Procs : IncrStore(p)
    \/ \E p \in Procs : PrintElem(p)
    \/ \E p \in Procs : Flush(p)
    \/ \E p \in Procs : ReturnCall(p)

SpecRace == InitCalls /\ [][NextRace]_vars

\* a DumpHTML call of one goroutine and a DumpStr and a DumpHTML call of another,
\* interleaved statement by statement
NextBackend ==
    \/ \E p \in Procs : Start(p, NextKinds(BackendPrograms, p), {<<"n">>}, FALSE)
    \/ \E p \in Procs : SavePrevColorize(p)
    \/ \E p \in Procs : SavePrevEnable(p)
    \/ \E p \in Procs : SetHTMLColorize(p)
    \/ \E p \in Procs : SetEnableColor(p)
    \/ \E p \in Procs : Header(p)
    \/ \E p \in Procs : ResetMap(p)
    \/ \E p \in Procs : StructHeader(p)
    \/ \E p \in Procs : FieldLine(p)
    \/ \E p \in Procs : PrintElem(p)
    \/ \E p \in Procs : Flush(p)
    \/ \E p \in Procs : RestoreColorize(p)
    \/ \E p \in Procs : RestoreEnable(p)
    \/ \E p \in Procs : ReturnCall(p)

SpecBackend == InitCalls /\ [][NextBackend]_vars

\* one goroutine calls Dd, again if the exit hook returned
NextDd ==
    \/ Start("g1", {"Dd"}, Structs, TRUE)
    \/ \E p \in Procs : Header(p)
    \/ \E p \in Procs : ResetMap(p)
    \/ \E p \in Procs : StructHeader(p)
    \/ \E p \in Procs : FieldLine(p)
    \/ \E p \in Procs : Lookup(p)
    \/ \E p \in Procs : Store(p)
    \/ \E p \in Procs : IncrLoad(p)
    \/ \E p \in Procs : IncrStore(p)
    \/ \E p \in Procs : PrintElem(p)
    \/ \E p \in Procs : Flush(p)
    \/ \E p \in Procs : Panic(p)
    \/ \E p \in Procs : ExitHook(p)
    \/ \E p \in Procs : ReturnCall(p)

SpecDd == InitCalls /\ [][NextDd]_vars

\* C7: the rendered body of a string s is the escaped form of its first
\* maxStringLen code points followed by one ellipsis when s has more than
\* maxStringLen code points, and the escaped form of all of s, without ellipsis,
\* otherwise (the count being taken on s itself).
C7_StringCutOnSourceRunes ==
    (spc = "done") =>
        sbuf = IF Len(sv) > d.maxStringLen
               THEN Append(escapeControl(SubSeq(sv, 1, d.maxStringLen)), "ellipsis")
               ELSE escapeControl(sv)

\* a non-nil value whose type has a String method and which can be read: directly
\* (CanInterface) or, being addressable, through the accessibility bypass
StringerCase(v) ==
    /\ ImplementsStringer(heap, v.n)
    /\ ~heap[v.n].isnil
    /\ ~heap[Receiver(heap, v.n)].isnil
    /\ (~v.ro \/ v.addr)

\* C8: whenever printValue renders a value within the depth limit that is non-nil
\* and whose type implements String() (read directly, or as an unexported field
\* through the accessibility bypass), it writes exactly '<String()> #<type>' and
\* returns without descending; the same holds for a struct field handled by the
\* field loop.
C8_StringerOverride ==
    [][ /\ ( /\ status = "running" /\ Top.op = "val"
             /\ Top.n # 0 /\ Top.depth <= d.maxDepth
             /\ StringerCase(TopVal)
             /\ status' # "overflow" )
           => /\ out' = Append(out, Tok("str", Top.n, Top.depth, Receiver(heap, Top.n)))
              /\ stack' = Pop
        /\ ( /\ status = "running" /\ Top.op = "fields"
             /\ Top.i < Len(heap[Top.n].kids) /\ Top.depth + 1 <= d.maxDepth
             /\ StringerCase(Field(heap, TopVal, Top.i + 1)) )
           => LET f == Field(heap, TopVal, Top.i + 1)
              IN  /\ Len(out') = Len(out) + 2
                  /\ out'[Len(out')] = Tok("str", f.n, Top.depth + 1, Receiver(heap, f.n))
                  /\ Len(stack') = Len(stack)
                  /\ stack'[Len(stack')].op = "fields"
      ]_vars

\* C8 witness: an unexported field with a String method has been rendered through
\* the bypass as its String() form.
C8_Witness ==
    \E i \in 1..(Len(out) - 1) :
        /\ out[i].t = "field-"
        /\ out[i + 1].t = "str" /\ out[i + 1].d = out[i].d + 1

\* C9: a channel is always rendered by the channel rule, also when its type
\* implements String(): every fragment written for a channel node is the channel
\* form (or the depth marker), never a stringer form.
C9_ChannelNeverStringer ==
    \A i \in DOMAIN out :
        (out[i].n # 0 /\ heap[out[i].n].kind = "chan" /\ out[i].t \notin {"key", "idx"})
            => (out[i].t \in {"chan", "channil", "maxdepth"})

\* C10: String() is never invoked on a nil receiver: no fragment is a String()
\* result whose receiver is nil (nil pointer, nil map, nil slice, nil func).
C10_NoStringOnNilReceiver ==
    \A i \in DOMAIN out :
        (out[i].t = "str") => ~heap[out[i].x].isnil

\* C11: an absent value is rendered by its nil form and nothing else: every
\* fragment written for a nil pointer, slice, map, interface, func or channel
\* within the depth limit is '<type>(nil)'; String() is not called on it and it is
\* not opened as a container.
C11_AbsentValuesRenderNil ==
    \A i \in DOMAIN out :
        (out[i].n # 0 /\ heap[out[i].n].isnil /\ out[i].t # "maxdepth")
            => (out[i].t \in {"nil", "strnil", "channil"})

\* the fragments of one struct rendering: o is the position of its type header,
\* j that of its closing brace
OpenStruct(j) ==
    CHOOSE o \in 1..(j - 1) :
        /\ out[o].t = "struct" /\ out[o].n = out[j].n /\ out[o].d = out[j].d
        /\ \A k \in (o + 1)..(j - 1) :
             ~(out[k].t = "struct" /\ out[k].n = out[j].n /\ out[k].d = out[j].d)

\* the field lines written at the level of the struct closed at j
FieldLinesOf(j) ==
    {k \in (OpenStruct(j) + 1)..(j - 1) :
        out[k].t \in {"field+", "field-"} /\ out[k].d = out[j].d}

RECURSIVE VisibleFrom(_, _, _, _)
\* reflect.VisibleFields: the number of visible fields among fields i.. of struct
\* n: each declared field, and with an embedded struct the fields promoted from it
VisibleFrom(h, n, i, fuel) ==
    IF i > Len(h[n].kids) \/ fuel = 0 THEN 0
    ELSE LET c == h[n].kids[i]
         IN  1 + (IF h[c].kind = "struct" /\ h[c].anon
                  THEN VisibleFrom(h, c, 1, fuel - 1) ELSE 0)
               + VisibleFrom(h, n, i + 1, fuel)

C13_NeverPanics == status # "panic"

\* what the fragments written so far show of embedded members: the fragment after
\* the line of an embedded struct member is that member's own rendering, one
\* level deeper: its type header, or its String() form or the depth marker
EmbeddedRenderedNested ==
    \A k \in 1..(Len(out) - 1) :
        (out[k].t \in {"field+", "field-"}) =>
            LET kid == heap[out[k].n].kids[out[k].x + 1]
            IN  (heap[kid].kind = "struct" /\ heap[kid].anon) =>
                    /\ out[k + 1].n = kid
                    /\ out[k + 1].d = out[k].d + 1
                    /\ out[k + 1].t \in {"struct", "str", "strnil", "maxdepth"}

TableConsistent ==
    /\ \A a \in DOMAIN referenceMap :
         referenceMap[a] >= 1 /\ referenceMap[a] < nextRefID
    /\ \A a, b \in DOMAIN referenceMap :
         (referenceMap[a] = referenceMap[b]) => (a = b)

\* C26: across any sequence of top-level calls the counter never decreases, the
\* table is well formed, the table is emptied only when a call starts and until
\* then an address keeps the id it was registered with, and a back-reference is
\* printed only for an address in the table of the running call, with that
\* address's id.
C26_ReferenceBookkeeping ==
    [][ /\ TableConsistent /\ TableConsistent'
        /\ nextRefID' >= nextRefID
        /\ IF status # "running" /\ status' = "running"
           THEN DOMAIN referenceMap' = {}
           ELSE \A a \in DOMAIN referenceMap :
                   a \in DOMAIN referenceMap' /\ referenceMap'[a] = referenceMap[a]
        /\ \A a \in DOMAIN referenceMap' :
              (a \notin DOMAIN referenceMap) =>
                  (referenceMap'[a] = nextRefID /\ nextRefID' = nextRefID + 1)
        /\ \A k \in (Len(out) + 1)..Len(out') :
              (status = "running" /\ out'[k].t = "ref") =>
                  LET a == heap[out'[k].n].kids[1]
                  IN  a \in DOMAIN referenceMap /\ referenceMap[a] = out'[k].x
      ]_vars

\* C26 witness: in a later call, whose table holds one address registered with
\* id 2, a back-reference to that address has been printed.
C26_Witness ==
    /\ status \in {"running", "done"}
    /\ Cardinality(DOMAIN referenceMap) = 1
    /\ \E k \in DOMAIN out :
         /\ out[k].t = "ref" /\ out[k].x = 2
         /\ heap[out[k].n].kids[1] \in DOMAIN referenceMap

-----------------------------------------------------------------------------
(* Claims about top-level calls *)

\* the form colorize gives a fragment under the package variables g
FormOf(g) == IF g.colorize = "html" THEN "html" ELSE IF g.enableColor THEN "ansi" ELSE "plain"

RECURSIVE FieldsAlone(_, _, _, _, _)
\* the field lines a call run on its own writes for fields i.. of val, in form c:
\* known maps the targets registered so far to their ids, id is the counter
FieldsAlone(val, i, known, id, c) ==
    IF i > Len(val) THEN <<>>
    ELSE LET f == val[i]
             sym == [t |-> "sym", x |-> i, c |-> c]
         IN  IF f = "n"
             THEN <<sym, [t |-> "val", x |-> f, c |-> c]>> \o FieldsAlone(val, i + 1, known, id, c)
             ELSE IF Target(f) \in DOMAIN known
             THEN <<sym, [t |-> "ref", x |-> known[Target(f)], c |-> c]>>
                    \o FieldsAlone(val, i + 1, known, id, c)
             ELSE <<sym, [t |-> "val", x |-> f, c |-> c]>>
                    \o FieldsAlone(val, i + 1, (Target(f) :> id) @@ known, id + 1, c)

\* what a call that ended, h, returns or leaves in its sink when it runs on its
\* own from the counter and the package variables it started with (a call that
\* panics leaves what was written before the tabwriter was flushed)
Alone(h) ==
    LET c == IF h.kind = "DumpHTML" THEN "html" ELSE FormOf(h.before)
        pre == IF h.kind = "DumpHTML" THEN <<[t |-> "prefix", x |-> 0, c |-> "none"]>> ELSE <<>>
        post == IF h.kind = "DumpHTML" THEN <<[t |-> "suffix", x |-> 0, c |-> "none"]>> ELSE <<>>
        head == <<[t |-> "hdr", x |-> 0, c |-> c]>>
    IN  IF "bad" \in Range(h.val)
        THEN pre \o head
        ELSE pre \o head \o <<[t |-> "type", x |-> 0, c |-> c]>>
               \o FieldsAlone(h.val, 1, [a \in {} |-> 0], h.startID, c) \o post

HasForm(h, c) == \E k \in DOMAIN h.out : h.out[k].c = c

\* C14: in any sequence of sequential calls, a DumpHTML call leaves the global
\* backend and the color flag as it found them, whether it returns normally or by
\* panic; every colorized fragment it wrote is an HTML span and a normal result is
\* enclosed in the prefix and the suffix; no DumpStr call writes an HTML span.
C14_DumpHTMLRestoresBackend ==
    \A i \in DOMAIN hist :
        LET h == hist[i] IN
        /\ (h.kind = "DumpHTML") =>
              /\ h.after = h.before
              /\ \A k \in DOMAIN h.out : h.out[k].c \in {"html", "none"}
              /\ h.out[1].t = "prefix"
              /\ (~h.panicked) => (h.out[Len(h.out)].t = "suffix")
        /\ (h.kind = "DumpStr") => ~HasForm(h, "html")

\* C14 witness: with colors disabled, a DumpHTML call has returned and a DumpStr
\* call after it has returned too.
C14_Witness ==
    \E i, j \in DOMAIN hist :
        /\ i < j
        /\ hist[i].kind = "DumpHTML" /\ ~hist[i].panicked /\ ~hist[i].before.enableColor
        /\ HasForm(hist[i], "html")
        /\ hist[j].kind = "DumpStr" /\ ~hist[j].panicked

\* C15: two separate top-level calls of the same kind on the same acyclic value
\* return identical output, whatever calls ran in between.
C15_SameValueSameOutput ==
    \A i, j \in DOMAIN hist :
        (hist[i].kind = hist[j].kind /\ hist[i].val = hist[j].val) =>
            hist[i].out = hist[j].out

\* C16: the reference table and the counter are shared without a lock.  A call
\* during which no other call ran returns what it returns on its own; a call that
\* overlapped another one need not (witness): every back-reference to an id the
\* call did not assign itself is printed by a call that overlapped another.
C16_RaceNeedsOverlap ==
    \A i \in DOMAIN hist :
        LET h == hist[i] IN
        /\ (h.seen = {}) => (h.out = Alone(h))
        /\ (\E k \in DOMAIN h.out : h.out[k].t = "ref" /\ h.out[k].x \notin h.mine)
              => (h.seen # {})

\* C16 witness: a call has returned an output that differs from the one it
\* produces on its own: it holds a back-reference to an id the call never assigned.
C16_Witness ==
    \E i \in DOMAIN hist :
        /\ hist[i].out # Alone(hist[i])
        /\ \E k \in DOMAIN hist[i].out :
             hist[i].out[k].t = "ref" /\ hist[i].out[k].x \notin hist[i].mine

\* C17: the backend swap is not isolated.  A DumpStr call writes an HTML span only
\* if a DumpHTML call ran during it or the backend was already stuck at HTML when
\* it started, and the backend is HTML with no call running only after two
\* DumpHTML calls overlapped; both do happen (witness).
C17_BackendLeakNeedsOverlap ==
    /\ \A i \in DOMAIN hist :
         (hist[i].kind = "DumpStr" /\ HasForm(hist[i], "html"))
            => ("DumpHTML" \in hist[i].seen \/ hist[i].before.colorize = "html")
    /\ (Active = {} /\ colorize = "html")
            => \E i \in DOMAIN hist : hist[i].kind = "DumpHTML" /\ "DumpHTML" \in hist[i].seen

\* C17 witness: a DumpStr call that ran during a DumpHTML call has written an HTML
\* span, and two overlapping DumpHTML calls have both returned with the global
\* backend left at HTML.
C17_Witness ==
    /\ Active = {} /\ colorize = "html"
    /\ \E i \in DOMAIN hist :
         hist[i].kind = "DumpStr" /\ HasForm(hist[i], "html") /\ "DumpHTML" \in hist[i].seen
    /\ \E i, j \in DOMAIN hist :
         /\ i # j
         /\ hist[i].kind = "DumpHTML" /\ hist[j].kind = "DumpHTML"
         /\ "DumpHTML" \in hist[i].seen /\ "DumpHTML" \in hist[j].seen
         /\ hist[i].before.colorize = "ansi"

\* the Dd calls whose exit hook has been called
HookCalled ==
    {p \in Procs : calls[p].kind = "Dd" /\ calls[p].pc \in {"return", "exited"}}

\* C20: Dd calls the exit hook only after the complete dump has been written and
\* flushed to the sink, once per call and with status 1; when the hook returns,
\* Dd returns and the sink holds the dump exactly once.
C20_DdDumpsThenExits ==
    /\ \A k \in DOMAIN exitCalls : exitCalls[k] = 1
    /\ Len(exitCalls) = Cardinality(HookCalled)
          + Cardinality({i \in DOMAIN hist : hist[i].kind = "Dd" /\ ~hist[i].panicked})
    /\ \A p \in HookCalled :
          /\ calls[p].tw = <<>>
          /\ calls[p].sb = Alone(Ended(p, calls[p], FALSE))
    /\ \A i \in DOMAIN hist :
          (hist[i].kind = "Dd" /\ ~hist[i].panicked) => (hist[i].out = Alone(hist[i]))

\* C20 witness: a Dd call whose hook returned has returned, the dump of a struct
\* with a pointer field in its sink.
C20_Witness ==
    \E i \in DOMAIN hist :
        /\ hist[i].kind = "Dd" /\ ~hist[i].panicked
        /\ exitCalls # <<>>
        /\ \E k \in DOMAIN hist[i].out : hist[i].out[k].t = "val"

RECURSIVE LastValid(_, _, _)
\* the argument of the last option of constructor k among the first i applied
\* that was not negative, and def if there is none
LastValid(k, i, def) ==
    IF i = 0 THEN def
    ELSE IF applied[i].k = k /\ (k = "WithWriter" \/ applied[i].n >= 0) THEN applied[i].n
    ELSE LastValid(k, i - 1, def)

\* C19: NewDumper starts from the limits 15 / 100 / 100000 and the standard
\* output; each WithMaxDepth, WithMaxItems, WithMaxStringLen with n >= 0 (0
\* included) sets its limit to n and with n < 0 leaves it as it was, options
\* taking effect in argument order; no option touches another setting.
C19_OptionsSetTheirLimit ==
    /\ dumper.maxDepth = LastValid("WithMaxDepth", Len(applied), 15)
    /\ dumper.maxItems = LastValid("WithMaxItems", Len(applied), 100)
    /\ dumper.maxStringLen = LastValid("WithMaxStringLen", Len(applied), 100000)
    /\ dumper.writer = LastValid("WithWriter", Len(applied), "stdout")

\* C19 witness: WithMaxItems(0) followed by a WithMaxItems with a negative
\* argument leaves maxItems at 0.
C19_Witness ==
    \E i, j \in DOMAIN applied :
        /\ i < j /\ j = Len(applied)
        /\ applied[i].k = "WithMaxItems" /\ applied[i].n = 0
        /\ applied[j].k = "WithMaxItems" /\ applied[j].n < 0
        /\ dumper.maxItems = 0

RECURSIVE BytesShown(_, _)
\* the bytes shown by the first i rows: their cells that are not blank
BytesShown(lines, i) ==
    IF i = 0 THEN 0
    ELSE Cardinality({j \in DOMAIN lines[i].cells : lines[i].cells[j][1] # " "})
           + BytesShown(lines, i - 1)

\* C18: a byte slice rendered as a hex dump shows at most maxItems bytes, and
\* when bytes are left out a truncation marker is printed.
C18_HexDumpBoundedByMaxItems ==
    (hout.phase = "done") =>
        /\ BytesShown(hout.lines, Len(hout.lines)) <= d.maxItems
        /\ (Len(hb.b) > d.maxItems) => (\E k \in DOMAIN hout.lines : hout.lines[k].t = "trunc")

\* the indexes, within the lookback, of the frames that do not belong to the engine
ExternalFrames ==
    {i \in 2..(lookback - 1) : i - 1 <= Len(frames) /\ frames[i - 1] # "engine"}

\* C21: the header line is written, first in the output, iff a frame that does
\* not belong to the engine lies within the lookback of 10 frames, and it reports
\* the innermost such frame; otherwise nothing is written.
C21_HeaderIffExternalFrame ==
    (hdr.pc = "done") =>
        IF ExternalFrames = {}
        THEN hdr.sink = <<>>
        ELSE /\ Len(hdr.sink) = 1
             /\ hdr.sink[1].t = "hdr"
             /\ \A i \in ExternalFrames : hdr.sink[1].file <= i
             /\ hdr.sink[1].file \in ExternalFrames

\* C22: after detectColor has run, ANSI color is disabled iff NO_COLOR is
\* non-empty, whatever FORCE_COLOR is; with NO_COLOR empty it is enabled, with
\* FORCE_COLOR set or not.
C22_ColorOffIffNoColor ==
    (cz.pc # "init") => (enableColor <=> (env.NO_COLOR = ""))

\* C22 witness: detectColor has run with both NO_COLOR and FORCE_COLOR set, and
\* color is disabled.
C22_Witness ==
    /\ cz.pc = "ready"
    /\ env.NO_COLOR # "" /\ env.FORCE_COLOR # ""
    /\ ~enableColor

\* C23: no backend drops or alters the text.  The ANSI backend returns the text
\* itself when color is disabled and code, text, reset when it is enabled; the
\* HTML backend returns an opening span tag, the full text and the closing tag,
\* for every code, one that is not in its color map included.
C23_BackendsKeepText ==
    (cz.pc = "called") =>
        /\ (cz.backend = "ansi" /\ ~enableColor) => (cz.res = cz.str)
        /\ (cz.backend = "ansi" /\ enableColor) =>
              (cz.res = <<cz.code>> \o cz.str \o <<"ESC[0m">>)
        /\ (cz.backend = "html") =>
              /\ Len(cz.res) = Len(cz.str) + 4
              /\ cz.res[1] = "<span style=\"color:"
              /\ cz.res[3] = "\">"
              /\ SubSeq(cz.res, 4, Len(cz.str) + 3) = cz.str
              /\ cz.res[Len(cz.res)] = "</span>"

\* C23 witness: the HTML backend was called with a code that is not in its color
\* map and a non-empty text.
C23_Witness ==
    /\ cz.pc = "called" /\ cz.backend = "html"
    /\ cz.code \notin {"ESC[90m", "ESC[33m", "ESC[38;5;113m", "ESC[38;5;38m",
                       "ESC[38;5;247m", "ESC[38;5;170m", "ESC[38;5;208m"}
    /\ cz.str # <<>>
    /\ cz.res # <<>>

\* the number a sequence of hexadecimal digits stands for
HexValue(ds) ==
    LET V(ch) == CHOOSE v \in 0..15 : HexDigits[v + 1] = ch
        RECURSIVE Val16(_)
        Val16(k) == IF k = 0 THEN 0 ELSE 16 * Val16(k - 1) + V(ds[k])
    IN  Val16(Len(ds))

\* C24: the hex dump of a byte slice b reports len(b) and cap(b), has
\* ceil(len(b)/16) rows and is closed; row k starts with the eight-digit offset
\* 16*k and lists the bytes 16k..16k+15 in order as two hex digits and a blank,
\* three blanks for a missing byte, one more blank after the 8th position, and its
\* ASCII column shows each byte as itself when in 32..126 and as '.' otherwise,
\* padded with blanks to 16 characters.
C24_HexDumpLayout ==
    (hout.phase = "done") =>
        /\ hout.len = Len(hb.b) /\ hout.cap = hb.cap
        /\ Len(hout.lines) = (Len(hb.b) + 15) \div 16
        /\ \A k \in DOMAIN hout.lines :
             LET row == hout.lines[k] IN
             /\ Len(row.offset) = 8 /\ HexValue(row.offset) = 16 * (k - 1)
             /\ Len(row.cells) = 16 /\ Len(row.ascii) = 16
             /\ \A j \in 1..16 :
                  LET at == 16 * (k - 1) + j
                      gap == IF j = 8 THEN <<" ">> ELSE <<>>
                  IN  IF at <= Len(hb.b)
                      THEN /\ Len(row.cells[j]) = 3 + Len(gap)
                           /\ HexValue(SubSeq(row.cells[j], 1, 2)) = hb.b[at]
                           /\ SubSeq(row.cells[j], 3, Len(row.cells[j])) = <<" ">> \o gap
                           /\ row.ascii[j] = IF hb.b[at] \in 32..126 THEN hb.b[at] ELSE 46
                      ELSE /\ row.cells[j] = <<" ", " ", " ">> \o gap
                           /\ row.ascii[j] = 32

\* C24 witness: a slice of 17 bytes has been dumped in two rows, the second
\* holding the last byte and blanks.
C24_Witness ==
    /\ hout.phase = "done"
    /\ Len(hb.b) = 17 /\ Len(hout.lines) = 2
    /\ hout.lines[2].ascii[1] = 126 /\ hout.lines[2].ascii[2] = 32
    /\ hout.lines[2].cells[2] = <<" ", " ", " ">>

====
